---- MODULE Spec2Model ----
(***************************************************************************)
(* A model of the aggregation service of dash-analytics                    *)
(* (server/src/services/aggregation.ts): the Redis cache helpers, the      *)
(* time-series aggregation and the KPI computation; and of the layer in    *)
(* front of it: the token middleware, the analytics routes, the Report     *)
(* model and the WebSocket server.                                         *)
(*                                                                         *)
(* Time.  An instant is an integer number of ticks, TicksPerDay ticks to   *)
(* the calendar day; day 1 is 2025-01-01, day 0 is 2024-12-31.  The server *)
(* runs in UTC, so date-fns (local time) and MongoDB (UTC) agree on the    *)
(* calendar day of an instant.                                             *)
(***************************************************************************)
EXTENDS Integers, Sequences, FiniteSets, TLC

VARIABLES store, redis, cache, pc, req, loc, sub, resp, result, ghost, now, peer,
          http, reports, wss

vars == <<store, redis, cache, pc, req, loc, sub, resp, result, ghost, now, peer,
          http, reports, wss>>

\* the variables of the HTTP and WebSocket layer, and those of the service
web == <<http, reports, wss>>

service == <<store, redis, cache, pc, req, loc, sub, resp, result, ghost, now, peer>>

\* ─── Bounds ──────────────────────────────────────────────────────────────

TicksPerDay == 2
MaxDay == 2
MaxObs == 2
\* the clock advances in steps of ClockStep seconds, up to MaxClock
ClockStep == 60
MaxClock == 360
\* the reports created, the times a report is generated, the WebSocket
\* connections accepted, the metric updates broadcast
MaxReports == 1
MaxGenerations == 1
MaxClients == 2
MaxUpdates == 1

Days == 1..MaxDay
\* the first and the last tick of a day
DayEdges == {0, TicksPerDay - 1}
Instants == {d * TicksPerDay + e : d \in Days, e \in DayEdges}
\* the periods a caller asks for: startDate <= endDate
Periods == {p \in Instants \X Instants : p[1] <= p[2]}

\* ─── date-fns ────────────────────────────────────────────────────────────

DayOf(t) == t \div TicksPerDay
TimeOfDay(t) == t % TicksPerDay

startOfDay(t) == DayOf(t) * TicksPerDay
endOfDay(t) == DayOf(t) * TicksPerDay + (TicksPerDay - 1)

subDays(t, n) == t - n * TicksPerDay

compareAsc(a, b) == IF a < b THEN -1 ELSE IF a > b THEN 1 ELSE 0

Abs(n) == IF n < 0 THEN -n ELSE n

differenceInCalendarDays(l, r) == DayOf(l) - DayOf(r)

\* full days between two instants, truncated towards zero
differenceInDays(l, r) ==
    LET sign == compareAsc(l, r)
        difference == Abs(differenceInCalendarDays(l, r))
        shifted == subDays(l, sign * difference)
        isLastDayNotFull == IF compareAsc(shifted, r) = -sign THEN 1 ELSE 0
    IN  sign * (difference - isLastDayNotFull)

\* the calendar: days -30..0 are December 2024, days 1..31 January 2025
YearOf(d) == IF d >= 1 THEN 2025 ELSE 2024
MonthOf(d) == IF d >= 1 THEN 1 ELSE 12
DayOfMonth(d) == IF d >= 1 THEN d ELSE 31 + d

Pad2(n) == IF n < 10 THEN "0" \o ToString(n) ELSE ToString(n)

\* format(date, "yyyyMMdd")
formatCompact(t) ==
    ToString(YearOf(DayOf(t))) \o Pad2(MonthOf(DayOf(t))) \o Pad2(DayOfMonth(DayOf(t)))

\* format(date, "yyyy-MM-dd") and $dateToString "%Y-%m-%d"
formatDay(t) ==
    ToString(YearOf(DayOf(t))) \o "-" \o Pad2(MonthOf(DayOf(t))) \o "-"
        \o Pad2(DayOfMonth(DayOf(t)))

\* ─── Numbers ─────────────────────────────────────────────────────────────
\* A number is a reduced fraction, so that $avg is exact.

RECURSIVE GCD(_, _)
GCD(a, b) == IF b = 0 THEN a ELSE GCD(b, a % b)

Frac(n, d) == LET g == GCD(Abs(n), d) IN [n |-> n \div g, d |-> d \div g]
Whole(n) == [n |-> n, d |-> 1]

\* ─── Metric configuration ────────────────────────────────────────────────

METRIC_CONFIG ==
    [revenue |-> [label |-> "Revenue", format |-> "currency", aggregation |-> "sum"],
     sessions |-> [label |-> "Sessions", format |-> "number", aggregation |-> "sum"],
     conversions |-> [label |-> "Conversions", format |-> "number", aggregation |-> "sum"],
     bounce_rate |-> [label |-> "Bounce Rate", format |-> "percentage", aggregation |-> "avg"],
     avg_session_duration |->
        [label |-> "Avg. Session Duration", format |-> "duration", aggregation |-> "avg"],
     active_users |-> [label |-> "Active Users", format |-> "number", aggregation |-> "sum"],
     page_views |-> [label |-> "Page Views", format |-> "number", aggregation |-> "sum"],
     new_users |-> [label |-> "New Users", format |-> "number", aggregation |-> "sum"]]

\* Object.keys(METRIC_CONFIG), in insertion order
kpiMetrics ==
    <<"revenue", "sessions", "conversions", "bounce_rate", "avg_session_duration",
      "active_users", "page_views", "new_users">>

Range(s) == {s[i] : i \in DOMAIN s}

\* a string | undefined parameter is None or Some(string); JS truthiness
Truthy(opt) == opt # <<>> /\ opt[1] # ""

\* ─── Metric store ────────────────────────────────────────────────────────
\* The collection is a sequence of documents; a document's index is its _id.

RECURSIVE SumValues(_)
SumValues(ids) ==
    IF ids = {} THEN 0
    ELSE LET i == CHOOSE j \in ids : TRUE
         IN  store[i].value + SumValues(ids \ {i})

\* a variant of Match without the filter on the metric name
MatchAnyName(metrics, gte, lte, source) ==
    {i \in DOMAIN store :
        /\ store[i].timestamp >= gte
        /\ store[i].timestamp <= lte
        /\ (Truthy(source) => store[i].source = source[1])}

\* a variant of Match in which an empty $in list filters nothing
MatchEmptyIsAll(metrics, gte, lte, source) ==
    {i \in DOMAIN store :
        /\ (metrics = <<>> \/ store[i].name \in Range(metrics))
        /\ store[i].timestamp >= gte
        /\ store[i].timestamp <= lte
        /\ (Truthy(source) => store[i].source = source[1])}

\* $match { name: {$in: metrics}, timestamp: {$gte, $lte} } and, when given, source
Match(metrics, gte, lte, source) ==
    {i \in DOMAIN store :
        /\ store[i].name \in Range(metrics)
        /\ store[i].timestamp >= gte
        /\ store[i].timestamp <= lte
        /\ (Truthy(source) => store[i].source = source[1])}

\* the groups of a $group stage keyed by metric name
NamesOf(ids) == {store[i].name : i \in ids}
WithName(ids, name) == {i \in ids : store[i].name = name}

\* ─── Bucket keys ─────────────────────────────────────────────────────────
\* A bucket is named by the instant it starts at; its key string is that
\* instant formatted.  Key strings are fixed-width and zero-padded, so their
\* string order is the field-by-field order of <<year, month, day, hour>>.

HourOf(t) == (TimeOfDay(t) * 24) \div TicksPerDay

\* the Monday of the ISO week of day d (day 1, 2025-01-01, is a Wednesday)
MondayOf(d) == d - ((d + 1) % 7)
FirstOfMonth(d) == IF d >= 1 THEN 1 ELSE -30

\* a variant of BucketOf whose default branch is apart from the day branch
\* and buckets by ISO week
BucketOfUnknownAsWeek(granularity, t) ==
    CASE granularity = "hour" -> t
      [] granularity = "day" -> startOfDay(t)
      [] granularity = "month" -> FirstOfMonth(DayOf(t)) * TicksPerDay
      [] OTHER -> MondayOf(DayOf(t)) * TicksPerDay

\* the start of the bucket of instant t: getDateGroup's expression, before
\* it is formatted
BucketOf(granularity, t) ==
    CASE granularity = "hour" -> t
      [] granularity = "week" -> MondayOf(DayOf(t)) * TicksPerDay
      [] granularity = "month" -> FirstOfMonth(DayOf(t)) * TicksPerDay
      [] OTHER -> startOfDay(t)

\* the key string of bucket b
BucketKey(granularity, b) ==
    CASE granularity = "hour" -> formatDay(b) \o "T" \o Pad2(HourOf(b)) \o ":00:00"
      [] OTHER -> formatDay(b)

getDateGroup(granularity, t) == BucketKey(granularity, BucketOf(granularity, t))

KeyFields(b) == <<YearOf(DayOf(b)), MonthOf(DayOf(b)), DayOfMonth(DayOf(b)), HourOf(b)>>

RECURSIVE LexLess(_, _)
LexLess(a, b) ==
    IF a = <<>> \/ b = <<>> THEN Len(a) < Len(b)
    ELSE IF Head(a) # Head(b) THEN Head(a) < Head(b)
    ELSE LexLess(Tail(a), Tail(b))

\* a variant of SortBuckets that sorts descending
RECURSIVE SortBucketsDescending(_)
SortBucketsDescending(bs) ==
    IF bs = {} THEN <<>>
    ELSE LET m == CHOOSE x \in bs : \A y \in bs \ {x} : LexLess(KeyFields(y), KeyFields(x))
         IN  <<m>> \o SortBucketsDescending(bs \ {m})

\* $sort ascending on the key string
RECURSIVE SortBuckets(_)
SortBuckets(bs) ==
    IF bs = {} THEN <<>>
    ELSE LET m == CHOOSE x \in bs : \A y \in bs \ {x} : LexLess(KeyFields(x), KeyFields(y))
         IN  <<m>> \o SortBuckets(bs \ {m})

\* ─── Redis cache ─────────────────────────────────────────────────────────
\* redis is "client" or "null".  cache maps a key to [payload, ttl, at, writer];
\* a payload is the JSON text of a value, or text that does not parse; ttl is
\* the EX argument in seconds and at the time of the write on the clock now
\* (seconds); writer is bookkeeping: the request whose call wrote the entry.
\* JSON.stringify followed by JSON.parse is exact on what the service caches
\* (arrays and objects of strings and finite numbers).

CACHE_TTL == 120
KPI_TTL == 300

None == <<>>
Some(v) == <<v>>

JSONstringify(data) == [parses |-> TRUE, data |-> data]
Unparsable == [parses |-> FALSE, data |-> <<>>]

\* redis.get finds the entry under key: it is there and its TTL has not elapsed
Live(key) == key \in DOMAIN cache /\ now < cache[key].at + cache[key].ttl

\* a variant of getCached that answers a missing key with an empty result
\* instead of null
getCachedEmptyOnMiss(key) ==
    IF redis = "null" THEN {[value |-> None, fault |-> FALSE, threw |-> FALSE]}
    ELSE {[value |-> None, fault |-> TRUE, threw |-> FALSE]}
         \cup
         (IF ~Live(key)
            THEN {[value |-> Some(<<>>), fault |-> FALSE, threw |-> FALSE]}
          ELSE IF ~cache[key].payload.parses
            THEN {[value |-> None, fault |-> TRUE, threw |-> FALSE]}
          ELSE {[value |-> Some(cache[key].payload.data), fault |-> FALSE, threw |-> FALSE]})

\* a variant of getCached without the try/catch: a rejected redis.get is
\* rethrown
getCachedRethrows(key) ==
    IF redis = "null" THEN {[value |-> None, fault |-> FALSE, threw |-> FALSE]}
    ELSE {[value |-> None, fault |-> TRUE, threw |-> TRUE]}
         \cup
         (IF ~Live(key)
            THEN {[value |-> None, fault |-> FALSE, threw |-> FALSE]}
          ELSE IF ~cache[key].payload.parses
            THEN {[value |-> None, fault |-> TRUE, threw |-> TRUE]}
          ELSE {[value |-> Some(cache[key].payload.data), fault |-> FALSE, threw |-> FALSE]})

\* a variant of getCached that goes to the backend whatever start-up left in
\* redis
getCachedReconnects(key) ==
    {[value |-> None, fault |-> TRUE, threw |-> FALSE]}
    \cup
    (IF ~Live(key)
       THEN {[value |-> None, fault |-> FALSE, threw |-> FALSE]}
     ELSE IF ~cache[key].payload.parses
       THEN {[value |-> None, fault |-> TRUE, threw |-> FALSE]}
     ELSE {[value |-> Some(cache[key].payload.data), fault |-> FALSE, threw |-> FALSE]})

\* The outcomes of getCached(key): the value returned (None for null),
\* whether a cache operation failed inside it, whether it threw.
getCached(key) ==
    IF redis = "null" THEN {[value |-> None, fault |-> FALSE, threw |-> FALSE]}
    ELSE \* redis.get rejects: caught, null
         {[value |-> None, fault |-> TRUE, threw |-> FALSE]}
         \cup
         (IF ~Live(key)
            THEN {[value |-> None, fault |-> FALSE, threw |-> FALSE]}
          ELSE IF ~cache[key].payload.parses
            THEN \* JSON.parse throws: caught, null
                 {[value |-> None, fault |-> TRUE, threw |-> FALSE]}
          ELSE {[value |-> Some(cache[key].payload.data), fault |-> FALSE, threw |-> FALSE]})

Put(c, key, entry) == [k \in DOMAIN c \cup {key} |-> IF k = key THEN entry ELSE c[k]]
Drop(c, key) == [k \in DOMAIN c \ {key} |-> c[k]]

\* The outcomes of setCache(key, data, ttl): the cache afterwards, whether
\* the write failed, whether it threw.
setCache(key, data, ttl) ==
    IF redis = "null" THEN {[cache |-> cache, fault |-> FALSE, threw |-> FALSE]}
    ELSE {[cache |-> Put(cache, key, [payload |-> JSONstringify(data), ttl |-> ttl,
                                      at |-> now, writer |-> req]),
           fault |-> FALSE, threw |-> FALSE],
          \* redis.set rejects: caught, nothing written
          [cache |-> cache, fault |-> TRUE, threw |-> FALSE]}

\* ─── Private helpers of AggregationService ───────────────────────────────

\* a variant of periodIds that takes the bounds as they were given
periodIdsAsGiven(metrics, start, end) == Match(metrics, start, end, None)

\* the documents the $match stage of aggregatePeriod and getTrends lets through
periodIds(metrics, start, end) == Match(metrics, startOfDay(start), endOfDay(end), None)

\* a variant of aggregatePeriod that takes r.sum for every metric
aggregatePeriodSumOnly(metrics, start, end) ==
    LET ids == periodIds(metrics, start, end)
    IN  [n \in NamesOf(ids) |-> Whole(SumValues(WithName(ids, n)))]

\* metric name -> number, for the names that have an observation in the window
aggregatePeriod(metrics, start, end) ==
    LET ids == periodIds(metrics, start, end)
        sum(n) == SumValues(WithName(ids, n))
        avg(n) == Frac(sum(n), Cardinality(WithName(ids, n)))
        config(n) == IF n \in DOMAIN METRIC_CONFIG THEN Some(METRIC_CONFIG[n]) ELSE None
    IN  [n \in NamesOf(ids) |->
            IF config(n) # None /\ config(n)[1].aggregation = "avg"
            THEN avg(n) ELSE Whole(sum(n))]

\* metric name -> sequence of [date, value], ascending by date, one entry for
\* each day on which the metric has an observation
getTrends(metrics, start, end) ==
    LET ids == periodIds(metrics, start, end)
        onDay(n, b) == {i \in WithName(ids, n) : startOfDay(store[i].timestamp) = b}
        days(n) == SortBuckets({startOfDay(store[i].timestamp) : i \in WithName(ids, n)})
    IN  [n \in NamesOf(ids) |->
            [k \in DOMAIN days(n) |->
                [date |-> formatDay(days(n)[k]), value |-> SumValues(onDay(n, days(n)[k]))]]]

\* ─── getKPIs ─────────────────────────────────────────────────────────────

\* a variant of prevStartOf that shifts the start back by one day more than
\* the end (the window made inclusive at one bound only)
prevStartOneDayMore(startDate, endDate) ==
    subDays(startDate, differenceInDays(endDate, startDate) + 1)

\* a variant of periodLength that counts the days of the window, both ends
\* included
periodLengthInclusive(startDate, endDate) ==
    differenceInCalendarDays(endDate, startDate) + 1

periodLength(startDate, endDate) == differenceInDays(endDate, startDate)

prevStartOf(startDate, endDate) == subDays(startDate, periodLength(startDate, endDate))
prevEndOf(startDate, endDate) == subDays(endDate, periodLength(startDate, endDate))

\* a variant of kpiCacheKey that leaves the end date out of the key
kpiCacheKeyStartOnly(startDate, endDate) == "kpi:" \o formatCompact(startDate)

kpiCacheKey(startDate, endDate) ==
    "kpi:" \o formatCompact(startDate) \o "-" \o formatCompact(endDate)

\* a variant of OrElse without the default: a missing key reads as undefined
OrElseUndefined(map, k, dflt) == IF k \in DOMAIN map THEN map[k] ELSE None

\* x[k] ?? dflt
OrElse(map, k, dflt) == IF k \in DOMAIN map THEN map[k] ELSE dflt

KPIResponse(startDate, endDate, prevStart, prevEnd, currentResults, previousResults, trendResults) ==
    [kpis |->
        [i \in DOMAIN kpiMetrics |->
            LET metricName == kpiMetrics[i]
                config == METRIC_CONFIG[metricName]
            IN  [id |-> metricName,
                 label |-> config.label,
                 value |-> OrElse(currentResults, metricName, Whole(0)),
                 previousValue |-> OrElse(previousResults, metricName, Whole(0)),
                 format |-> config.format,
                 trend |-> OrElse(trendResults, metricName, <<>>)]],
     period |->
        [current |-> [start |-> formatDay(startDate), end |-> formatDay(endDate)],
         previous |-> [start |-> formatDay(prevStart), end |-> formatDay(prevEnd)]]]

\* ─── getTimeSeries ──────────────────────────────────────────────────────

RECURSIVE Join(_, _)
Join(strs, sep) ==
    IF strs = <<>> THEN ""
    ELSE IF Len(strs) = 1 THEN strs[1]
    ELSE strs[1] \o sep \o Join(Tail(strs), sep)

tsCacheKey(params) ==
    "ts:" \o Join(params.metrics, ",") \o ":" \o params.granularity \o ":"
        \o formatCompact(params.startDate) \o "-" \o formatCompact(params.endDate) \o ":"
        \o (IF params.source = None THEN "all" ELSE params.source[1])

\* Metric.aggregate(pipeline): one document for each bucket that has a matched
\* observation, holding date and the sum of each metric present in the
\* bucket, ascending by date
aggregatePipeline(params) ==
    LET ids == Match(params.metrics, startOfDay(params.startDate),
                     endOfDay(params.endDate), params.source)
        bucket(i) == BucketOf(params.granularity, store[i].timestamp)
        inBucket(b) == {i \in ids : bucket(i) = b}
        metricsObject(b) ==
            [n \in NamesOf(inBucket(b)) |-> SumValues(WithName(inBucket(b), n))]
        \* $mergeObjects: [{date}, metrics], the later object wins
        document(b) == metricsObject(b) @@ [date |-> BucketKey(params.granularity, b)]
        order == SortBuckets({bucket(i) : i \in ids})
    IN  [k \in DOMAIN order |-> document(order[k])]

\* a variant of normalizeRow that returns the document as the store gave it
normalizeRowUnfilled(row, metrics) == row

\* lines 194-200: date, then row[m] ?? 0 for every requested metric
normalizeRow(row, metrics) ==
    [k \in {"date"} \cup Range(metrics) |-> IF k \in DOMAIN row THEN row[k] ELSE 0]

normalizeRows(results, metrics) ==
    [k \in DOMAIN results |-> normalizeRow(results[k], metrics)]

\* ─── State ───────────────────────────────────────────────────────────────
\* pc, req, loc, sub, resp, result and ghost are the frame of the call that is
\* running; peer is the frame of a second call, suspended at an await, or of
\* none.  now is the clock of the Redis server, in seconds.  pc is the position
\* of the running call,
\* req its parameters, loc its locals, sub the results of its store queries
\* (None while in flight), resp the value it is about to cache, result what
\* the caller received.  ghost records what happened during the call: whether
\* it was served from the cache (hit) and by whose entry (servedFrom), whether
\* at the lookup the cache held no live entry under its key (cold), an entry
\* whose TTL had elapsed (expired), or an entry of a request with the same
\* inputs up to the order of the metrics (sibling),
\* whether a cache read or write failed, whether the cache was written,
\* whether a store query failed, and how many store queries completed.

NoReq == [op |-> "none", startDate |-> 0, endDate |-> 0, granularity |-> "",
          metrics |-> <<>>, source |-> None]
NoLoc == [cacheKey |-> "", prevStart |-> 0, prevEnd |-> 0]
NoSub == [current |-> None, previous |-> None, trend |-> None, rows |-> None]
NoResult == [status |-> "none", value |-> None]
NoGhost == [hit |-> FALSE, cold |-> FALSE, expired |-> FALSE, sibling |-> FALSE,
            servedFrom |-> NoReq, getFault |-> FALSE, setFault |-> FALSE, wrote |-> FALSE,
            storeError |-> FALSE, queries |-> 0]

\* the frame of a call: everything a call holds between two awaits
Frame(fpc, freq, floc, fsub, fresp, fresult, fghost) ==
    [pc |-> fpc, req |-> freq, loc |-> floc, sub |-> fsub, resp |-> fresp,
     result |-> fresult, ghost |-> fghost]

NoFrame == Frame("idle", NoReq, NoLoc, NoSub, None, NoResult, NoGhost)

\* The observations a collection is drawn from: a sum metric at the first and
\* the last tick of each day, an avg metric at the first.  An observation at the
\* first tick of a day has value 1 and source "web"; one at the last tick has
\* a larger value and source "all".
ValueAt(t) == 1 + (t % TicksPerDay)
SourceAt(t) == IF t % TicksPerDay = 0 THEN "web" ELSE "all"

\* revenue is observed at either edge of a day, bounce_rate at the first tick
ObservedAt(n) == IF n = "revenue" THEN Instants ELSE {t \in Instants : TimeOfDay(t) = 0}

Observations ==
    UNION {{[name |-> n, value |-> ValueAt(t), timestamp |-> t, source |-> SourceAt(t)] :
                t \in ObservedAt(n)} : n \in {"revenue", "bounce_rate"}}

\* a collection is a multiset of documents: one sequence for each, ordered
ObsRank(o) == <<CHOOSE i \in DOMAIN kpiMetrics : kpiMetrics[i] = o.name, o.timestamp>>

Collections(obs) ==
    UNION {{s \in [1..n -> obs] :
                \A i \in 1..(n - 1) : ~LexLess(ObsRank(s[i + 1]), ObsRank(s[i]))}
           : n \in 0..MaxObs}

\* http is the request in the chain app.use("/api/analytics", verifyToken,
\* analyticsRouter): stage is the layer about to run, request what the client
\* sent, validated the output of validate, user the subject of the token, res
\* the responses sent, passed the middlewares that called next(), calls the
\* number of calls the handlers made to the aggregation service or to the
\* Report model, fault whether such a call was rejected.  reports is the
\* reports collection, a report's index its _id.  wss is the WebSocket
\* server: the connections it accepted and the number of broadcasts.
NoFields == [startDate |-> None, endDate |-> None, granularity |-> None, metrics |-> None,
             source |-> None, title |-> None, description |-> None, format |-> None,
             schedule |-> None]
NoRequest == [method |-> "", route |-> "", authorization |-> None, query |-> NoFields,
              body |-> NoFields, id |-> 0]
NoHttp == [stage |-> "none", request |-> NoRequest, validated |-> None, user |-> None,
           res |-> <<>>, passed |-> {}, calls |-> 0, fault |-> FALSE]
NoWss == [clients |-> <<>>, broadcasts |-> 0]

\* module start-up: redis.connect() succeeds, or fails and redis = null
InitService ==
    /\ redis \in {"client", "null"}
    /\ cache = <<>>
    /\ pc = "idle"
    /\ req = NoReq
    /\ loc = NoLoc
    /\ sub = NoSub
    /\ resp = None
    /\ result = NoResult
    /\ ghost = NoGhost
    /\ now = 0
    /\ peer = NoFrame
    /\ http = NoHttp
    /\ reports = <<>>
    /\ wss = NoWss

Init == store \in Collections(Observations) /\ InitService

\* a variant of cachedIsTruthy that takes an empty row set for a miss
cachedIsNonEmpty(value) == value # None /\ value[1] # <<>>

\* if (cached): null is falsy; an array, even the empty one, and an object
\* are truthy
cachedIsTruthy(value) == value # None

\* two requests with the same inputs up to the order of the metric list
Related(a, b) ==
    /\ a.op = b.op
    /\ Range(a.metrics) = Range(b.metrics)
    /\ Len(a.metrics) = Len(b.metrics)
    /\ a.granularity = b.granularity
    /\ formatCompact(a.startDate) = formatCompact(b.startDate)
    /\ formatCompact(a.endDate) = formatCompact(b.endDate)
    /\ a.source = b.source

\* a variant of aggregateRejected that catches the rejection and answers
\* with no rows
aggregateRejectedAsEmpty == [status |-> "ok", value |-> Some(<<>>)]

\* what the caller of getTimeSeries gets when Metric.aggregate rejects: the
\* await on line 191 rethrows
aggregateRejected == [status |-> "error", value |-> None]

\* getKPIs(startDate, endDate) is called: lines 211-215.  The model lets a call
\* start only when the cache holds no entry under another key.
KpiCall(startDate, endDate) ==
    /\ pc = "idle"
    /\ DOMAIN cache \subseteq {kpiCacheKey(startDate, endDate)}
    /\ pc' = "getCached"
    /\ req' = [NoReq EXCEPT !.op = "kpi", !.startDate = startDate, !.endDate = endDate]
    /\ loc' = [cacheKey |-> kpiCacheKey(startDate, endDate),
               prevStart |-> prevStartOf(startDate, endDate),
               prevEnd |-> prevEndOf(startDate, endDate)]
    /\ UNCHANGED <<web, now, peer, store, redis, cache, sub, resp, result, ghost>>

\* const cached = await getCached(cacheKey); if (cached) return cached
Lookup ==
    /\ pc = "getCached"
    /\ \E out \in getCached(loc.cacheKey) :
        /\ ghost' = [ghost EXCEPT
                        !.getFault = out.fault,
                        !.hit = cachedIsTruthy(out.value),
                        !.cold = ~Live(loc.cacheKey),
                        !.expired = loc.cacheKey \in DOMAIN cache /\ ~Live(loc.cacheKey),
                        !.sibling = \E k \in DOMAIN cache :
                                        cache[k].payload.parses /\ Related(cache[k].writer, req),
                        !.servedFrom = IF cachedIsTruthy(out.value) /\ Live(loc.cacheKey)
                                       THEN cache[loc.cacheKey].writer ELSE NoReq]
        /\ IF out.threw
             THEN pc' = "failed" /\ result' = [status |-> "error", value |-> None]
           ELSE IF cachedIsTruthy(out.value)
             THEN pc' = "done" /\ result' = [status |-> "ok", value |-> Some(out.value[1])]
           ELSE pc' = (IF req.op = "kpi" THEN "fanout" ELSE "aggregate")
                /\ result' = result
    /\ UNCHANGED <<web, now, peer, store, redis, cache, req, loc, sub, resp>>

\* getTimeSeries(params) is called: lines 138-140.  The model lets a call
\* start only when every cache entry is under its key or was written for
\* the same inputs up to the order of the metrics.
TsCall(params) ==
    /\ pc = "idle"
    /\ \A k \in DOMAIN cache :
          k = tsCacheKey(params) \/ Related(cache[k].writer, params)
    /\ pc' = "getCached"
    /\ req' = params
    /\ loc' = [NoLoc EXCEPT !.cacheKey = tsCacheKey(params)]
    /\ UNCHANGED <<web, now, peer, store, redis, cache, sub, resp, result, ghost>>

KpiQueries == {"current", "previous", "trend"}

KpiQueryResult(q) ==
    CASE q = "current" -> aggregatePeriod(kpiMetrics, req.startDate, req.endDate)
      [] q = "previous" -> aggregatePeriod(kpiMetrics, loc.prevStart, loc.prevEnd)
      [] q = "trend" -> getTrends(kpiMetrics, req.startDate, req.endDate)

\* one of the three queries of Promise.all resolves
KpiQueryOk(q) ==
    /\ pc = "fanout"
    /\ sub[q] = None
    /\ sub' = [sub EXCEPT ![q] = Some(KpiQueryResult(q))]
    /\ ghost' = [ghost EXCEPT !.queries = @ + 1]
    /\ UNCHANGED <<web, now, peer, store, redis, cache, pc, req, loc, resp, result>>

\* a variant of KpiQueryFail that settles the rejected query with an empty
\* result and lets the others go on (Promise.allSettled with a default)
KpiQueryFailAsEmpty(q) ==
    /\ pc = "fanout"
    /\ sub[q] = None
    /\ sub' = [sub EXCEPT ![q] = Some(<<>>)]
    /\ ghost' = [ghost EXCEPT !.queries = @ + 1, !.storeError = TRUE]
    /\ UNCHANGED <<web, now, peer, store, redis, cache, pc, req, loc, resp, result>>

\* a variant of KpiQueryFail in which the rejection is never delivered: the
\* promise of the query stays pending and Promise.all with it
KpiQueryFailNeverSettles(q) ==
    /\ pc = "fanout"
    /\ sub[q] = None
    /\ pc' = "pending"
    /\ ghost' = [ghost EXCEPT !.storeError = TRUE]
    /\ UNCHANGED <<web, now, peer, store, redis, cache, req, loc, sub, resp, result>>

\* one of the three queries rejects: Promise.all rejects, getKPIs throws
KpiQueryFail(q) ==
    /\ pc = "fanout"
    /\ sub[q] = None
    /\ pc' = "failed"
    /\ sub' = NoSub
    /\ result' = [status |-> "error", value |-> None]
    /\ ghost' = [ghost EXCEPT !.queries = @ + 1, !.storeError = TRUE]
    /\ UNCHANGED <<web, now, peer, store, redis, cache, req, loc, resp>>

\* all three resolved: lines 228-252
KpiCompose ==
    /\ pc = "fanout"
    /\ \A q \in KpiQueries : sub[q] # None
    /\ resp' = Some(KPIResponse(req.startDate, req.endDate, loc.prevStart, loc.prevEnd,
                                sub.current[1], sub.previous[1], sub.trend[1]))
    /\ pc' = "setCache"
    /\ UNCHANGED <<web, now, peer, store, redis, cache, req, loc, sub, result, ghost>>

\* Metric.aggregate(pipeline) resolves: lines 191-200
TsAggregateOk ==
    /\ pc = "aggregate"
    /\ resp' = Some(normalizeRows(aggregatePipeline(req), req.metrics))
    /\ pc' = "setCache"
    /\ ghost' = [ghost EXCEPT !.queries = @ + 1]
    /\ UNCHANGED <<web, now, peer, store, redis, cache, req, loc, sub, result>>

\* Metric.aggregate(pipeline) rejects: getTimeSeries throws
TsAggregateFail ==
    /\ pc = "aggregate"
    /\ pc' = (IF aggregateRejected.status = "error" THEN "failed" ELSE "done")
    /\ result' = aggregateRejected
    /\ ghost' = [ghost EXCEPT !.queries = @ + 1, !.storeError = TRUE]
    /\ UNCHANGED <<web, now, peer, store, redis, cache, req, loc, sub, resp>>

\* a variant of cacheTtl in which getKPIs leaves the ttl to its default
cacheTtlDefault == CACHE_TTL

cacheTtl == IF req.op = "kpi" THEN KPI_TTL ELSE CACHE_TTL

\* await setCache(cacheKey, response, ttl); return response
Store ==
    /\ pc = "setCache"
    /\ \E out \in setCache(loc.cacheKey, resp[1], cacheTtl) :
        /\ cache' = out.cache
        /\ ghost' = [ghost EXCEPT !.setFault = out.fault, !.wrote = out.cache # cache]
        /\ IF out.threw
             THEN pc' = "failed" /\ result' = [status |-> "error", value |-> None]
             ELSE pc' = "done" /\ result' = [status |-> "ok", value |-> resp]
    /\ UNCHANGED <<web, now, peer, store, redis, req, loc, sub, resp>>

\* the caller has its answer; the service is ready for the next call
Return ==
    /\ pc \in {"done", "failed"}
    /\ pc' = "idle"
    /\ req' = NoReq
    /\ loc' = NoLoc
    /\ sub' = NoSub
    /\ resp' = None
    /\ result' = NoResult
    /\ ghost' = NoGhost
    /\ UNCHANGED <<web, now, peer, store, redis, cache>>

\* Redis drops an entry whose TTL has elapsed.  A call reads the cache once
\* and then overwrites its own key, so an expiry during a call acts on it as
\* one before or after the call: the model expires entries between calls.
Expire(key) ==
    /\ key \in DOMAIN cache
    /\ pc = "idle"
    /\ cache' = Drop(cache, key)
    /\ UNCHANGED <<web, now, peer, store, redis, pc, req, loc, sub, resp, result, ghost>>

\* The entry under a key comes to hold text that JSON.parse rejects (Redis is
\* shared: another writer, or a truncated value).  As for Expire, between
\* calls.
Corrupt(key) ==
    /\ key \in DOMAIN cache
    /\ pc = "idle"
    /\ cache[key].payload.parses
    /\ cache' = [cache EXCEPT ![key].payload = Unparsable]
    /\ UNCHANGED <<web, now, peer, store, redis, pc, req, loc, sub, resp, result, ghost>>

\* Time passes on the Redis server.  As for Expire, between calls.
Tick ==
    /\ pc = "idle"
    /\ peer.pc = "idle"
    /\ now + ClockStep <= MaxClock
    /\ now' = now + ClockStep
    /\ UNCHANGED <<web, peer, store, redis, cache, pc, req, loc, sub, resp, result, ghost>>

\* The event loop suspends the running call at the await it has reached (or
\* leaves a finished one) and resumes the other call; Node runs the code
\* between two awaits without interruption, so the actions above are atomic.
Switch ==
    /\ pc # "idle" \/ peer.pc # "idle"
    /\ peer' = Frame(pc, req, loc, sub, resp, result, ghost)
    /\ pc' = peer.pc
    /\ req' = peer.req
    /\ loc' = peer.loc
    /\ sub' = peer.sub
    /\ resp' = peer.resp
    /\ result' = peer.result
    /\ ghost' = peer.ghost
    /\ UNCHANGED <<web, now, store, redis, cache>>

NextKPI ==
    \/ \E p \in Periods : KpiCall(p[1], p[2])
    \/ Lookup
    \/ \E q \in KpiQueries : KpiQueryOk(q)
    \/ \E q \in KpiQueries : KpiQueryFail(q)
    \/ KpiCompose
    \/ Store
    \/ Return
    \/ \E k \in DOMAIN cache : Expire(k)
    \/ \E k \in DOMAIN cache : Corrupt(k)

SpecKPI == Init /\ [][NextKPI]_vars

\* The requests of the time-series model: dates at midnight, as the route
\* parses them from YYYY-MM-DD.
TsMetricLists ==
    {<<>>, <<"revenue", "bounce_rate">>, <<"bounce_rate", "revenue">>, <<"revenue", "foo">>}
TsGranularities == {"hour", "day"}
TsSources == {None, Some("all")}
TsPeriods == {p \in Periods : TimeOfDay(p[1]) = 0 /\ TimeOfDay(p[2]) = 0}

TsRequests ==
    {[op |-> "ts", metrics |-> m, granularity |-> g, startDate |-> p[1], endDate |-> p[2],
      source |-> s] :
        m \in TsMetricLists, g \in TsGranularities, p \in TsPeriods, s \in TsSources}

NextTS ==
    \/ \E params \in TsRequests : TsCall(params)
    \/ Lookup
    \/ TsAggregateOk
    \/ TsAggregateFail
    \/ Store
    \/ Return
    \/ \E k \in DOMAIN cache : Expire(k)
    \/ \E k \in DOMAIN cache : Corrupt(k)

SpecTS == Init /\ [][NextTS]_vars

\* both operations of the service
Next == NextKPI \/ NextTS

Spec == Init /\ [][Next]_vars

\* one request for each operation, over the whole range of days
WholeRange == <<TicksPerDay, MaxDay * TicksPerDay>>

RangeRequest(source) ==
    [op |-> "ts", metrics |-> <<"revenue">>, granularity |-> "day",
     startDate |-> WholeRange[1], endDate |-> WholeRange[2], source |-> source]

RangeRequests == {RangeRequest(source) : source \in TsSources}

\* The service with the clock: entries age and their TTL elapses.
NextTTL ==
    \/ \E params \in RangeRequests : params.source = None /\ TsCall(params)
    \/ KpiCall(WholeRange[1], WholeRange[2])
    \/ Lookup
    \/ \E q \in KpiQueries : KpiQueryOk(q)
    \/ \E q \in KpiQueries : KpiQueryFail(q)
    \/ KpiCompose
    \/ TsAggregateOk
    \/ TsAggregateFail
    \/ Store
    \/ Return
    \/ Tick
    \/ \E k \in DOMAIN cache : Expire(k)

SpecTTL == Init /\ [][NextTTL]_vars

\* Two calls at a time.  A second call starts while the first is suspended
\* only with the parameters of the first; the store answers every query.
NextPair ==
    \/ \E params \in RangeRequests :
            /\ peer.pc = "idle" \/ peer.req = params
            /\ TsCall(params)
    \/ /\ peer.pc = "idle" \/ peer.req.op = "kpi"
       /\ KpiCall(WholeRange[1], WholeRange[2])
    \/ Lookup
    \/ \E q \in KpiQueries : KpiQueryOk(q)
    \/ KpiCompose
    \/ TsAggregateOk
    \/ Store
    \/ Return
    \/ Switch
    \/ \E k \in DOMAIN cache : Expire(k)

SpecPair == Init /\ [][NextPair]_vars

\* The aggregation windows: requests whose dates carry a time of day, over a
\* collection in which both metrics are observed at either edge of a day.
EveryObservation ==
    {[name |-> n, value |-> ValueAt(t), timestamp |-> t, source |-> SourceAt(t)] :
        n \in {"revenue", "bounce_rate"}, t \in Instants}

InitWindow == store \in Collections(EveryObservation) /\ InitService

WindowRequests ==
    {[op |-> "ts", metrics |-> <<"revenue", "bounce_rate">>, granularity |-> "day",
      startDate |-> p[1], endDate |-> p[2], source |-> None] : p \in Periods}

NextWindow ==
    \/ NextKPI
    \/ \E params \in WindowRequests : TsCall(params)
    \/ TsAggregateOk
    \/ TsAggregateFail

SpecWindow == InitWindow /\ [][NextWindow]_vars

\* The calendar: observations on Tuesday 2024-12-31, Wednesday 2025-01-01 and
\* Monday 2025-01-06 (two months, two ISO weeks), requested at every
\* granularity.
CalendarDays == {0, 1, 6}
CalendarInstants == {d * TicksPerDay + e : d \in CalendarDays, e \in DayEdges}

CalendarObservations ==
    {[name |-> "revenue", value |-> ValueAt(t), timestamp |-> t, source |-> SourceAt(t)] :
        t \in CalendarInstants}

InitCalendar == store \in Collections(CalendarObservations) /\ InitService

CalendarRequests ==
    {[op |-> "ts", metrics |-> <<"revenue">>, granularity |-> g,
      startDate |-> 0, endDate |-> 6 * TicksPerDay, source |-> None] :
        g \in {"hour", "day", "week", "month"}}

NextCalendar ==
    \/ \E params \in CalendarRequests : TsCall(params)
    \/ Lookup
    \/ TsAggregateOk
    \/ TsAggregateFail
    \/ Store
    \/ Return
    \/ \E k \in DOMAIN cache : Expire(k)
    \/ \E k \in DOMAIN cache : Corrupt(k)

SpecCalendar == InitCalendar /\ [][NextCalendar]_vars

\* Day rows: day granularity over the collections of Init and over the
\* collection {revenue:100 @2025-01-01, revenue:200 @2025-01-02,
\* sessions:10 @2025-01-01}.
ExampleStore ==
    <<[name |-> "revenue", value |-> 100, timestamp |-> TicksPerDay, source |-> "web"],
      [name |-> "revenue", value |-> 200, timestamp |-> 2 * TicksPerDay, source |-> "web"],
      [name |-> "sessions", value |-> 10, timestamp |-> TicksPerDay, source |-> "web"]>>

InitDay == store \in Collections(Observations) \cup {ExampleStore} /\ InitService

DayRequests ==
    {[op |-> "ts", metrics |-> m, granularity |-> "day", startDate |-> p[1],
      endDate |-> p[2], source |-> s] :
        m \in {<<"revenue", "bounce_rate">>, <<"revenue", "sessions">>},
        p \in TsPeriods, s \in TsSources}

NextDay ==
    \/ \E params \in DayRequests : TsCall(params)
    \/ Lookup
    \/ TsAggregateOk
    \/ TsAggregateFail
    \/ Store
    \/ Return
    \/ \E k \in DOMAIN cache : Expire(k)
    \/ \E k \in DOMAIN cache : Corrupt(k)

SpecDay == InitDay /\ [][NextDay]_vars

\* Granularities outside the four of getDateGroup's switch, next to day: the
\* requests of the calendar with the granularity replaced.
FallbackGranularities == {"day", "year", "minute"}

FallbackRequests ==
    {[r EXCEPT !.granularity = g] : r \in CalendarRequests, g \in FallbackGranularities}

NextFallback ==
    \/ \E params \in FallbackRequests : TsCall(params)
    \/ Lookup
    \/ TsAggregateOk
    \/ TsAggregateFail
    \/ Store
    \/ Return
    \/ \E k \in DOMAIN cache : Expire(k)
    \/ \E k \in DOMAIN cache : Corrupt(k)

SpecFallback == InitCalendar /\ [][NextFallback]_vars

\* Progress.  One request for each operation; the cache backend answers or
\* fails every get and set it is sent, the store answers or fails every
\* aggregate it is sent, and the event loop runs a continuation whose promise
\* has settled.  Nothing obliges a caller to call, or to call again.
NextLive ==
    \/ \E params \in RangeRequests : TsCall(params)
    \/ KpiCall(WholeRange[1], WholeRange[2])
    \/ Lookup
    \/ \E q \in KpiQueries : KpiQueryOk(q)
    \/ \E q \in KpiQueries : KpiQueryFail(q)
    \/ KpiCompose
    \/ TsAggregateOk
    \/ TsAggregateFail
    \/ Store
    \/ Return
    \/ \E k \in DOMAIN cache : Expire(k)
    \/ \E k \in DOMAIN cache : Corrupt(k)

BackendsAnswer ==
    /\ WF_vars(Lookup)
    /\ WF_vars(\E q \in KpiQueries : KpiQueryOk(q) \/ KpiQueryFail(q))
    /\ WF_vars(KpiCompose)
    /\ WF_vars(TsAggregateOk \/ TsAggregateFail)
    /\ WF_vars(Store)

\* progress does not depend on what the store holds: an empty collection and
\* one with observations
InitLive == store \in {<<>>, ExampleStore} /\ InitService

SpecLive == InitLive /\ [][NextLive]_vars /\ BackendsAnswer

\* ─── Token middleware ───────────────────────────────────────────────────
\* An Authorization header is None (absent) or Some(words), the words being
\* what split(" ") makes of it: <<"">> is the empty header.  A token is named
\* by what jwt.verify makes of it.

Tokens == {"valid", "expired", "forged", ""}

\* a variant of jwtVerify that checks the signature and not the expiry
jwtVerifyIgnoringExpiry(token) ==
    IF token \in {"valid", "expired"} THEN "decoded" ELSE "JsonWebTokenError"

\* jwt.verify(token, JWT_SECRET, {algorithms: ["HS256"]}): the payload, or the
\* class of the error thrown.  With a string secret and HS256 it throws errors
\* of these two classes only.
jwtVerify(token) ==
    CASE token = "valid" -> "decoded"
      [] token = "expired" -> "TokenExpiredError"
      [] OTHER -> "JsonWebTokenError"

\* res.status(status).json({error: {code}}), res.json(payload),
\* res.redirect(payload): the response ends the request
Send(h, status, code, by, payload) ==
    [h EXCEPT !.stage = "closed",
              !.res = Append(@, [status |-> status, code |-> code, by |-> by,
                                 payload |-> payload])]

\* next(err): the global error handler; the errors of the service and of
\* mongoose carry neither status nor code
errorHandler(h) ==
    Send([h EXCEPT !.fault = TRUE], 500, "INTERNAL_ERROR", "errorHandler", None)

ExportRoute == "GET /reports/:id/export"

\* a request arrives; the model takes one request at a time
Receive(r) ==
    /\ http.stage \in {"none", "closed"}
    /\ pc = "idle"
    /\ r.route = "POST /reports" => Len(reports) < MaxReports
    /\ http' = [NoHttp EXCEPT !.stage = "verifyToken", !.request = r]
    /\ UNCHANGED <<reports, wss, service>>

\* verifyToken; its next() enters the router, whose first layer for the route
\* is validate, or the handler itself for the export route
verifyToken ==
    /\ http.stage = "verifyToken"
    /\ LET authHeader == http.request.authorization
           parts == authHeader[1]
           token == parts[2]
           outcome == jwtVerify(token)
       IN  http' =
             IF authHeader = None \/ parts = <<"">>
               THEN Send(http, 401, "AUTH_MISSING", "verifyToken", None)
             ELSE IF Len(parts) # 2 \/ parts[1] # "Bearer"
               THEN Send(http, 401, "AUTH_INVALID_SCHEME", "verifyToken", None)
             ELSE CASE outcome = "decoded" ->
                         [http EXCEPT !.user = Some(token),
                                      !.passed = @ \cup {"verifyToken"},
                                      !.stage = IF http.request.route = ExportRoute
                                                THEN "handler" ELSE "validate"]
                    [] outcome = "TokenExpiredError" ->
                         Send(http, 401, "AUTH_TOKEN_EXPIRED", "verifyToken", None)
                    [] outcome = "JsonWebTokenError" ->
                         Send(http, 401, "AUTH_TOKEN_INVALID", "verifyToken", None)
                    [] OTHER -> Send(http, 500, "AUTH_ERROR", "verifyToken", None)
    /\ UNCHANGED <<reports, wss, service>>

\* ─── Analytics routes ────────────────────────────────────────────────────
\* A query or a body is a record of fields, each None (absent) or Some(value).
\* A date field is its text; the texts that match /^\d{4}-\d{2}-\d{2}$/ are
\* those of the days of the model.  The metrics field of a query is the
\* sequence of the pieces of its text between the commas (its text is their
\* Join); a title or a description is its length.

Granularities == {"hour", "day", "week", "month"}

DayStarts == {d * TicksPerDay : d \in Days}
matchesYMD(text) == \E t \in DayStarts : formatDay(t) = text

\* new Date("YYYY-MM-DD"): midnight UTC of that day
newDate(text) == CHOOSE t \in DayStarts : formatDay(t) = text

\* String.prototype.trim on the pieces the model uses
trim(s) == IF s = " bounce_rate" THEN "bounce_rate" ELSE s

\* z.enum(values).default(dflt)
inEnum(field, values) == field = None \/ field[1] \in values
orDefault(field, dflt) == IF field = None THEN dflt ELSE field[1]

metricsQuerySchema(q) ==
    IF /\ q.startDate # None /\ matchesYMD(q.startDate[1])
       /\ q.endDate # None /\ matchesYMD(q.endDate[1])
       /\ inEnum(q.granularity, Granularities)
       /\ q.metrics # None /\ Join(q.metrics[1], ",") # ""
    THEN Some([startDate |-> q.startDate[1], endDate |-> q.endDate[1],
               granularity |-> orDefault(q.granularity, "day"),
               metrics |-> q.metrics[1], source |-> q.source])
    ELSE None

reportBodySchema(b) ==
    IF /\ b.title # None /\ b.title[1] >= 1 /\ b.title[1] <= 200
       /\ b.description = None \/ b.description[1] <= 1000
       /\ b.metrics # None /\ Len(b.metrics[1]) >= 1
       /\ b.startDate # None /\ matchesYMD(b.startDate[1])
       /\ b.endDate # None /\ matchesYMD(b.endDate[1])
       /\ inEnum(b.granularity, Granularities)
       /\ inEnum(b.format, {"pdf", "csv"})
       /\ inEnum(b.schedule, {"once", "daily", "weekly", "monthly"})
    THEN Some([title |-> b.title[1], description |-> orDefault(b.description, 0),
               metrics |-> b.metrics[1],
               startDate |-> b.startDate[1], endDate |-> b.endDate[1],
               granularity |-> orDefault(b.granularity, "day"),
               format |-> orDefault(b.format, "pdf"),
               schedule |-> orDefault(b.schedule, "once")])
    ELSE None

\* a variant of validateFailure that answers 422
validateFailureUnprocessable(h) == Send(h, 422, "UNPROCESSABLE", "validate", None)

\* lines 39-55: the 400 response, returned without next()
validateFailure(h) == Send(h, 400, "VALIDATION_ERROR", "validate", None)

\* validate(schema): the schema is that of the route
validate ==
    /\ http.stage = "validate"
    /\ LET target == IF http.request.method = "GET"
                     THEN http.request.query ELSE http.request.body
           parsed == IF http.request.route = "GET /metrics"
                     THEN metricsQuerySchema(target) ELSE reportBodySchema(target)
       IN  http' = IF parsed = None
                     THEN validateFailure(http)
                   ELSE [http EXCEPT !.validated = parsed,
                                     !.passed = @ \cup {"validate"},
                                     !.stage = "handler"]
    /\ UNCHANGED <<reports, wss, service>>

\* GET /metrics, up to its await: getTimeSeries is called and runs to its
\* first await
getMetrics ==
    /\ http.stage = "handler"
    /\ http.request.route = "GET /metrics"
    /\ pc = "idle"
    /\ LET v == http.validated[1]
           metricNames == [i \in DOMAIN v.metrics |-> trim(v.metrics[i])]
           params == [op |-> "ts", startDate |-> newDate(v.startDate),
                      endDate |-> newDate(v.endDate), granularity |-> v.granularity,
                      metrics |-> metricNames, source |-> v.source]
       IN  /\ pc' = "getCached"
           /\ req' = params
           /\ loc' = [NoLoc EXCEPT !.cacheKey = tsCacheKey(params)]
    /\ http' = [http EXCEPT !.stage = "awaiting", !.calls = @ + 1]
    /\ UNCHANGED <<reports, wss, now, peer, store, redis, cache, sub, resp, result, ghost>>

\* GET /metrics, after its await: res.json({data, meta}), or next(err)
getMetricsReturn ==
    /\ http.stage = "awaiting"
    /\ pc \in {"done", "failed"}
    /\ http' = IF result.status = "ok"
                 THEN Send(http, 200, "", "handler", result.value)
               ELSE errorHandler(http)
    /\ pc' = "idle"
    /\ req' = NoReq
    /\ loc' = NoLoc
    /\ sub' = NoSub
    /\ resp' = None
    /\ result' = NoResult
    /\ ghost' = NoGhost
    /\ UNCHANGED <<reports, wss, now, peer, store, redis, cache>>

\* ─── Reports ─────────────────────────────────────────────────────────────
\* Of a report the model keeps status, downloadUrl (None for null),
\* generationCount and whether error is set.

NewReport == [status |-> "pending", downloadUrl |-> None, generationCount |-> 0,
              error |-> FALSE]

\* POST /reports: Report.create resolves and the handler answers 201, or it
\* rejects and the handler calls next(err)
createReport ==
    /\ http.stage = "handler"
    /\ http.request.route = "POST /reports"
    /\ \/ /\ reports' = Append(reports, NewReport)
          /\ http' = Send([http EXCEPT !.calls = @ + 1], 201, "", "handler",
                          Some(Len(reports) + 1))
       \/ /\ reports' = reports
          /\ http' = errorHandler([http EXCEPT !.calls = @ + 1])
    /\ UNCHANGED <<wss, service>>

markProcessing(i) ==
    /\ i \in DOMAIN reports
    /\ reports' = [reports EXCEPT ![i].status = "processing"]
    /\ UNCHANGED <<http, wss, service>>

markCompleted(i, downloadUrl) ==
    /\ i \in DOMAIN reports
    /\ reports[i].generationCount < MaxGenerations
    /\ reports' = [reports EXCEPT ![i] = [status |-> "completed",
                                          downloadUrl |-> Some(downloadUrl),
                                          generationCount |-> @.generationCount + 1,
                                          error |-> FALSE]]
    /\ UNCHANGED <<http, wss, service>>

markFailed(i) ==
    /\ i \in DOMAIN reports
    /\ reports' = [reports EXCEPT ![i].status = "failed", ![i].error = TRUE]
    /\ UNCHANGED <<http, wss, service>>

\* Report.findById(id).lean(): the document, null, or a rejection (the store
\* fails, or the id is no ObjectId)
findById(id) ==
    {[rejected |-> FALSE,
      doc |-> IF id \in DOMAIN reports THEN Some(reports[id]) ELSE None],
     [rejected |-> TRUE, doc |-> None]}

\* a variant of exportReady that looks at the status only
exportReadyByStatus(report) == report.status = "completed"

\* line 268, negated: the report can be exported
exportReady(report) == report.status = "completed" /\ Truthy(report.downloadUrl)

\* GET /reports/:id/export
exportReport ==
    /\ http.stage = "handler"
    /\ http.request.route = ExportRoute
    /\ \E found \in findById(http.request.id) :
          LET h == [http EXCEPT !.calls = @ + 1]
          IN  http' =
                IF found.rejected THEN errorHandler(h)
                ELSE IF found.doc = None
                  THEN Send(h, 404, "NOT_FOUND", "handler", None)
                ELSE IF ~exportReady(found.doc[1])
                  THEN Send(h, 409, "REPORT_NOT_READY", "handler", None)
                ELSE Send(h, 302, "", "handler", found.doc[1].downloadUrl)
    /\ UNCHANGED <<reports, wss, service>>

\* ─── WebSocket server ────────────────────────────────────────────────────
\* A connection holds the token of its URL (None when the parameter is
\* absent), its readyState, whether the message listener is registered, the
\* channel stored on it, the last reply sent to it and the number of
\* metric_update messages sent to it.  wss.clients are the connections that
\* are not CLOSED.

\* wss.on("connection")
connection(token) ==
    /\ Len(wss.clients) < MaxClients
    /\ wss' = [wss EXCEPT !.clients =
                  Append(@, IF ~Truthy(token)
                              THEN \* ws.close(4001, "Authentication required")
                                   [token |-> token, readyState |-> "CLOSING",
                                    closeCode |-> 4001, listening |-> FALSE,
                                    channel |-> None, reply |-> "", updates |-> 0]
                            ELSE [token |-> token, readyState |-> "OPEN",
                                  closeCode |-> 0, listening |-> TRUE,
                                  channel |-> None, reply |-> "", updates |-> 0])]
    /\ UNCHANGED <<http, reports, service>>

\* ws.on("message"): m is what JSON.parse makes of the text
message(i, m) ==
    /\ i \in DOMAIN wss.clients
    /\ wss.clients[i].listening
    /\ wss.clients[i].readyState = "OPEN"
    /\ wss' = IF ~m.parses
                THEN [wss EXCEPT !.clients[i].reply = "error"]
              ELSE IF m.type = "subscribe" /\ Truthy(m.channel)
                THEN [wss EXCEPT !.clients[i].channel = m.channel,
                                 !.clients[i].reply = "subscribed"]
              ELSE wss
    /\ UNCHANGED <<http, reports, service>>

\* the closing handshake completes, or the client goes away
closed(i) ==
    /\ i \in DOMAIN wss.clients
    /\ wss.clients[i].readyState # "CLOSED"
    /\ wss' = [wss EXCEPT !.clients[i].readyState = "CLOSED"]
    /\ UNCHANGED <<http, reports, service>>

broadcastMetricUpdate ==
    /\ wss.broadcasts < MaxUpdates
    /\ wss' = [clients |->
                  [i \in DOMAIN wss.clients |->
                      IF wss.clients[i].readyState = "OPEN"
                      THEN [wss.clients[i] EXCEPT !.updates = @ + 1]
                      ELSE wss.clients[i]],
               broadcasts |-> wss.broadcasts + 1]
    /\ UNCHANGED <<http, reports, service>>

\* ─── The layer in front of the service ───────────────────────────────────

InitWeb == store = ExampleStore /\ InitService

AuthHeaders ==
    {None, Some(<<"">>), Some(<<"Basic", "valid">>), Some(<<"bearer", "valid">>),
     Some(<<"Bearer">>), Some(<<"Bearer", "valid", "valid">>)}
    \cup {Some(<<"Bearer", token>>) : token \in Tokens}

GoodQuery ==
    [NoFields EXCEPT !.startDate = Some("2025-01-01"), !.endDate = Some("2025-01-02"),
                     !.metrics = Some(<<"revenue", " bounce_rate">>)]

GoodQueries ==
    {GoodQuery, [GoodQuery EXCEPT !.granularity = Some("hour"), !.source = Some("web")]}

BadQueries ==
    {[GoodQuery EXCEPT !.startDate = None],
     [GoodQuery EXCEPT !.endDate = Some("01/02/2025")],
     [GoodQuery EXCEPT !.granularity = Some("year")],
     [GoodQuery EXCEPT !.metrics = None],
     [GoodQuery EXCEPT !.metrics = Some(<<"">>)]}

GoodBody ==
    [NoFields EXCEPT !.title = Some(12), !.metrics = Some(<<"revenue">>),
                     !.startDate = Some("2025-01-01"), !.endDate = Some("2025-01-02"),
                     !.schedule = Some("weekly")]

GoodBodies == {GoodBody, [GoodBody EXCEPT !.description = Some(40), !.format = Some("csv")]}

BadBodies ==
    {[GoodBody EXCEPT !.title = None],
     [GoodBody EXCEPT !.title = Some(0)],
     [GoodBody EXCEPT !.title = Some(201)],
     [GoodBody EXCEPT !.metrics = Some(<<>>)],
     [GoodBody EXCEPT !.startDate = Some("2025-1-1")],
     [GoodBody EXCEPT !.schedule = Some("hourly")]}

MetricsRequests(headers, queries) ==
    {[NoRequest EXCEPT !.method = "GET", !.route = "GET /metrics",
                       !.authorization = a, !.query = q] : a \in headers, q \in queries}

ReportRequests(headers, bodies) ==
    {[NoRequest EXCEPT !.method = "POST", !.route = "POST /reports",
                       !.authorization = a, !.body = b] : a \in headers, b \in bodies}

ExportRequests(headers, ids) ==
    {[NoRequest EXCEPT !.method = "GET", !.route = ExportRoute,
                       !.authorization = a, !.id = i] : a \in headers, i \in ids}

\* Every route behind every header.
HttpRequests ==
    MetricsRequests(AuthHeaders, GoodQueries \cup BadQueries)
    \cup ReportRequests(AuthHeaders, GoodBodies \cup BadBodies)
    \cup ExportRequests(AuthHeaders, {1})

NextHttp ==
    \/ \E r \in HttpRequests : Receive(r)
    \/ verifyToken
    \/ validate
    \/ getMetrics
    \/ Lookup
    \/ TsAggregateOk
    \/ TsAggregateFail
    \/ Store
    \/ getMetricsReturn
    \/ createReport
    \/ exportReport

SpecHttp == InitWeb /\ [][NextHttp]_vars

\* The life of a report: created, generated by the report generator, exported.
DownloadUrls == {"", "https://files/report.pdf"}

LifeRequests ==
    ReportRequests({None, Some(<<"Bearer", "valid">>)}, {GoodBody})
    \cup ExportRequests({None, Some(<<"Bearer", "valid">>)}, 1..(MaxReports + 1))

NextReports ==
    \/ \E r \in LifeRequests : Receive(r)
    \/ verifyToken
    \/ validate
    \/ createReport
    \/ exportReport
    \/ \E i \in DOMAIN reports : markProcessing(i)
    \/ \E i \in DOMAIN reports, url \in DownloadUrls : markCompleted(i, url)
    \/ \E i \in DOMAIN reports : markFailed(i)

SpecReports == InitWeb /\ [][NextReports]_vars

\* The WebSocket server and its clients.
WsTokens == {None, Some(""), Some("valid"), Some("forged")}

WsMessages ==
    {[parses |-> TRUE, type |-> "subscribe", channel |-> Some("revenue")],
     [parses |-> TRUE, type |-> "subscribe", channel |-> None],
     [parses |-> TRUE, type |-> "ping", channel |-> None],
     [parses |-> FALSE, type |-> "", channel |-> None]}

NextWs ==
    \/ \E token \in WsTokens : connection(token)
    \/ \E i \in DOMAIN wss.clients, m \in WsMessages : message(i, m)
    \/ \E i \in DOMAIN wss.clients : closed(i)
    \/ broadcastMetricUpdate

SpecWs == InitWeb /\ [][NextWs]_vars

\* ─── Properties ──────────────────────────────────────────────────────────

KpiInFlight == req.op = "kpi" /\ pc # "idle"
TsInFlight == req.op = "ts" /\ pc # "idle"
Answered == pc = "done" /\ result.status = "ok"
Computed == Answered /\ ~ghost.hit

WindowDays == DayOf(req.endDate) - DayOf(req.startDate) + 1

\* what the call in progress returns when there is no cache at all: the
\* store queries of its request, composed
Uncached ==
    IF req.op = "kpi"
    THEN KPIResponse(req.startDate, req.endDate,
                     prevStartOf(req.startDate, req.endDate),
                     prevEndOf(req.startDate, req.endDate),
                     aggregatePeriod(kpiMetrics, req.startDate, req.endDate),
                     aggregatePeriod(kpiMetrics, prevStartOf(req.startDate, req.endDate),
                                     prevEndOf(req.startDate, req.endDate)),
                     getTrends(kpiMetrics, req.startDate, req.endDate))
    ELSE normalizeRows(aggregatePipeline(req), req.metrics)

\* C1: in getKPIs the end of the previous period, as used for the previous
\* aggregate and as reported in period.previous.end, is the calendar day
\* before startDate.
C1_PreviousEndsDayBeforeStart ==
    /\ KpiInFlight => DayOf(loc.prevEnd) = DayOf(req.startDate) - 1
    /\ (KpiInFlight /\ Computed) =>
            result.value[1].period.previous.end = formatDay(subDays(req.startDate, 1))

\* C2: in getKPIs no observation is aggregated both into the current period
\* (value) and into the previous period (previousValue).
C2_WindowsDoNotOverlap ==
    (KpiInFlight /\ sub.current # None /\ sub.previous # None) =>
        periodIds(kpiMetrics, req.startDate, req.endDate)
            \cap periodIds(kpiMetrics, loc.prevStart, loc.prevEnd) = {}

\* C3: in getKPIs the previous window is as long as the current one:
\* previousEnd - previousStart = endDate - startDate, and the two windows
\* span the same number of calendar days.
C3_PreviousWindowSameLength ==
    KpiInFlight =>
        /\ loc.prevEnd - loc.prevStart = req.endDate - req.startDate
        /\ DayOf(loc.prevEnd) - DayOf(loc.prevStart) = DayOf(req.endDate) - DayOf(req.startDate)

\* a KPI call that computed its answer over a window of more than one day,
\* with a previous window shifted back from it
C3_Witness ==
    /\ KpiInFlight /\ Computed
    /\ WindowDays = 2
    /\ TimeOfDay(req.startDate) < TimeOfDay(req.endDate)
    /\ loc.prevStart < req.startDate

\* C4: every row getTimeSeries returns, computed or served from the cache,
\* has exactly the keys date and the requested metrics; every metric value is
\* a number, and it is 0 when the store holds no observation of that metric
\* in the row's bucket (so always for an unregistered metric).
C4_RowsCarryEveryMetric ==
    (TsInFlight /\ Answered) =>
        \A k \in DOMAIN result.value[1] :
            LET row == result.value[1][k] IN
            /\ DOMAIN row = {"date"} \cup Range(req.metrics)
            /\ \A m \in Range(req.metrics) :
                /\ row[m] \in Int
                /\ (\A i \in DOMAIN store :
                        store[i].name = m =>
                            getDateGroup(req.granularity, store[i].timestamp) # row["date"])
                    => row[m] = 0

\* a computed row in which one requested metric has observations and the
\* other, an unregistered one, is filled with 0
C4_Witness ==
    /\ TsInFlight /\ Computed
    /\ req.metrics = <<"revenue", "foo">>
    /\ \E k \in DOMAIN result.value[1] :
            result.value[1][k]["revenue"] > 0 /\ result.value[1][k]["foo"] = 0

\* two requests with the same inputs: the same metric set, granularity,
\* start day, end day and source filter (no filter is not the filter "all")
SameInputs(a, b) ==
    /\ a.op = b.op
    /\ Range(a.metrics) = Range(b.metrics)
    /\ a.granularity = b.granularity
    /\ formatCompact(a.startDate) = formatCompact(b.startDate)
    /\ formatCompact(a.endDate) = formatCompact(b.endDate)
    /\ a.source = b.source

\* C5: a getTimeSeries request is answered from the cache only by an entry
\* that a request with the same inputs wrote: requests that differ in an
\* input never share a cache key.
C5_HitOnlyFromSameInputs ==
    (TsInFlight /\ ghost.hit) => SameInputs(ghost.servedFrom, req)

\* C6: a getTimeSeries request whose metric list is a permutation of the list
\* of an earlier request (all other inputs equal) has the same cache key, and
\* is served from the entry the earlier request wrote.
C6_PermutationIsAHit ==
    (TsInFlight /\ pc # "getCached" /\ ghost.sibling /\ ~ghost.getFault) =>
        /\ ghost.hit
        /\ \A k \in DOMAIN cache :
                Related(cache[k].writer, req) => k = loc.cacheKey

\* C7: the trend of a KPI item has one entry for each calendar day of the
\* current window (stated for the metrics that have an observation in the
\* window; for the others getKPIs defaults the trend to the empty sequence).
C7_TrendCoversEveryDay ==
    (KpiInFlight /\ Computed) =>
        \A i \in DOMAIN result.value[1].kpis :
            LET item == result.value[1].kpis[i] IN
            periodIds(<<item.id>>, req.startDate, req.endDate) # {}
                => Len(item.trend) = WindowDays

\* C8: a call that finds the cache cold, and a call with the cache disabled
\* (redis = null), return the value computed from the store alone.
C8_CacheTransparent ==
    (pc = "done" /\ (redis = "null" \/ ghost.cold)) =>
        /\ result.status = "ok"
        /\ result.value = Some(Uncached)

\* a call answered over a cold cache, which it then fills: a KPI call whose
\* first item has a value, or a time-series call that returns several rows
C8_Witness ==
    /\ pc = "done" /\ redis = "client" /\ ghost.cold /\ ghost.wrote
    /\ \/ req.op = "kpi" /\ result.value[1].kpis[1].value.n > 0
       \/ req.op = "ts" /\ Len(result.value[1]) > 1

\* C9: a failing cache operation never fails the call: the call fails only
\* when a store query failed; after a failing get the call returns what it
\* computes from the store, and a failing set writes nothing.
C9_CacheFailuresAreSwallowed ==
    /\ pc = "failed" => ghost.storeError
    /\ (pc = "done" /\ (ghost.getFault \/ ghost.setFault)) =>
            /\ result.status = "ok"
            /\ result.value = Some(Uncached)
    /\ ghost.setFault => ~ghost.wrote

\* a call that found an unparsable entry under its key and whose cache write
\* failed, answered all the same
C9_Witness ==
    /\ pc = "done" /\ ghost.getFault /\ ghost.setFault
    /\ loc.cacheKey \in DOMAIN cache
    /\ ~cache[loc.cacheKey].payload.parses
    /\ result.status = "ok"

\* C10: when the store query of getTimeSeries fails, the call fails: the
\* caller receives an error and no rows, and no cache entry is written or
\* changed in that step or before the call returns.
C10_StoreFailurePropagates ==
    [][(TsInFlight /\ (ghost.storeError \/ ghost'.storeError)) =>
            /\ pc' \in {"failed", "idle"}
            /\ pc' = "failed" => (result'.status = "error" /\ result'.value = None)
            /\ cache' = cache]_vars

\* a time-series call that failed on the store while the cache holds nothing
\* under its key
C10_Witness ==
    /\ TsInFlight /\ pc = "failed" /\ ghost.storeError
    /\ redis = "client" /\ loc.cacheKey \notin DOMAIN cache

\* the observations of a metric on the calendar days first..last, and the
\* total of the values of a set of observations
ObservedOn(name, first, last) ==
    {i \in DOMAIN store :
        store[i].name = name /\ DayOf(store[i].timestamp) \in first..last}

RECURSIVE Total(_)
Total(ids) ==
    IF ids = {} THEN 0
    ELSE LET i == CHOOSE j \in ids : TRUE IN store[i].value + Total(ids \ {i})

\* C11: getKPIs is all-or-nothing over its three queries, in whatever order
\* they complete: a response exists only when all three have resolved and
\* none was rejected; once one is rejected the call has failed, the caller
\* has an error and no response, and the cache is left as it was.
C11_AllOrNothing ==
    [][(req'.op = "kpi" /\ pc' # "idle") =>
            /\ resp' # None =>
                    /\ \A q \in KpiQueries : sub'[q] # None
                    /\ ghost'.queries = 3
                    /\ ~ghost'.storeError
            /\ (pc' = "done" /\ ~ghost'.hit) => (resp' # None /\ result'.value = resp')
            /\ ghost'.storeError =>
                    /\ pc' = "failed"
                    /\ result'.status = "error" /\ result'.value = None
                    /\ resp' = None
                    /\ cache' = cache]_vars

\* a KPI call that failed on its third query, after the two others resolved,
\* with nothing cached under its key
C11_Witness ==
    /\ KpiInFlight /\ pc = "failed" /\ ghost.storeError
    /\ ghost.queries = 3
    /\ redis = "client" /\ loc.cacheKey \notin DOMAIN cache

\* C12: a getTimeSeries call that finds a parsable entry under its key is a
\* hit, whether the cached row set is empty or not; a hit returns the cached
\* rows as they are, queries the store not at all and leaves the cache as it
\* was.
C12_HitReturnsEntryUntouched ==
    [][(req'.op = "ts" /\ pc = "getCached" /\ pc' # "getCached") =>
            /\ (Live(loc.cacheKey) /\ cache[loc.cacheKey].payload.parses
                    /\ ~ghost'.getFault) => ghost'.hit
            /\ ghost'.hit =>
                    /\ pc' = "done"
                    /\ result'.status = "ok"
                    /\ result'.value = Some(cache[loc.cacheKey].payload.data)
                    /\ ghost'.queries = 0
                    /\ cache' = cache]_vars

\* a request for some metrics served from an entry that holds no rows
C12_Witness ==
    /\ TsInFlight /\ ghost.hit /\ pc = "done"
    /\ req.metrics # <<>>
    /\ result.value = Some(<<>>)
    /\ ghost.queries = 0

\* C13: in a computed KPI response, value is taken over the observations of
\* the metric on the days of the current window and previousValue over those
\* on the days of the previous window the call uses: their total for a sum
\* metric, their arithmetic mean for bounce_rate and avg_session_duration.
C13_KpiValuesFollowPolicy ==
    (KpiInFlight /\ Computed) =>
        \A i \in DOMAIN result.value[1].kpis :
            LET item == result.value[1].kpis[i]
                FollowsPolicy(v, ids) ==
                    IF item.id \in {"bounce_rate", "avg_session_duration"}
                    THEN ids # {} => v.n * Cardinality(ids) = Total(ids) * v.d
                    ELSE v.n = Total(ids) /\ v.d = 1
            IN  /\ FollowsPolicy(item.value,
                        ObservedOn(item.id, DayOf(req.startDate), DayOf(req.endDate)))
                /\ FollowsPolicy(item.previousValue,
                        ObservedOn(item.id, DayOf(loc.prevStart), DayOf(loc.prevEnd)))

\* a KPI response in which bounce_rate is the mean 3/2 of the observations 1
\* and 2 while revenue is a total
C13_Witness ==
    /\ KpiInFlight /\ Computed
    /\ \E i \in DOMAIN result.value[1].kpis :
            /\ result.value[1].kpis[i].id = "bounce_rate"
            /\ result.value[1].kpis[i].value = [n |-> 3, d |-> 2]

\* the observations a time-series request asks for: of a requested metric,
\* on a calendar day from the start date to the end date, and from the source
\* when one is given
Requested(r) ==
    {i \in DOMAIN store :
        /\ store[i].name \in Range(r.metrics)
        /\ DayOf(store[i].timestamp) \in DayOf(r.startDate)..DayOf(r.endDate)
        /\ (r.source # None /\ r.source[1] # "") => store[i].source = r.source[1]}

\* C14: in a computed getTimeSeries row the value of a sum metric is the
\* total of its observations in the bucket and the value of an avg metric
\* (bounce_rate, avg_session_duration) is their arithmetic mean.
C14_RowsFollowPolicy ==
    (TsInFlight /\ Computed) =>
        \A k \in DOMAIN result.value[1] : \A m \in Range(req.metrics) :
            LET row == result.value[1][k]
                ids == {i \in Requested(req) :
                            /\ store[i].name = m
                            /\ getDateGroup(req.granularity, store[i].timestamp) = row["date"]}
            IN  ids # {} =>
                    IF m \in {"bounce_rate", "avg_session_duration"}
                    THEN row[m] * Cardinality(ids) = Total(ids)
                    ELSE row[m] = Total(ids)

\* the start of the bucket that a date of a row names
DateInstant(granularity, date) ==
    CHOOSE b \in {BucketOf(granularity, store[i].timestamp) : i \in DOMAIN store} :
        BucketKey(granularity, b) = date

\* C15: at every granularity the rows getTimeSeries returns are strictly
\* ascending by date, so no two rows share a date, and a computed row set has
\* exactly one row for each bucket that holds a requested observation.
C15_RowsStrictlyAscending ==
    (TsInFlight /\ Answered) =>
        LET rows == result.value[1] IN
        /\ \A k \in 1..(Len(rows) - 1) :
                DateInstant(req.granularity, rows[k]["date"])
                    < DateInstant(req.granularity, rows[k + 1]["date"])
        /\ ~ghost.hit =>
                Len(rows) = Cardinality({getDateGroup(req.granularity, store[i].timestamp) :
                                            i \in Requested(req)})

\* weekly rows for the ISO weeks of 2024-12-30 and 2025-01-06, across the
\* turn of the year
C15_Witness ==
    /\ TsInFlight /\ Computed
    /\ req.granularity = "week"
    /\ Len(result.value[1]) = 2
    /\ result.value[1][1]["date"] = "2024-12-30"
    /\ result.value[1][2]["date"] = "2025-01-06"

\* C16: on a miss with day granularity getTimeSeries returns exactly one row
\* for each day on which a requested observation exists, and each metric
\* value of a row is the total of that metric's observations on that day (0
\* when there is none).
C16_DayRowsAreDailyTotals ==
    (TsInFlight /\ Computed /\ req.granularity = "day") =>
        LET rows == result.value[1]
            days == {formatDay(store[i].timestamp) : i \in Requested(req)}
        IN  /\ {rows[k]["date"] : k \in DOMAIN rows} = days
            /\ Len(rows) = Cardinality(days)
            /\ \A k \in DOMAIN rows : \A m \in Range(req.metrics) :
                    rows[k][m] = Total({i \in Requested(req) :
                                            /\ store[i].name = m
                                            /\ formatDay(store[i].timestamp) = rows[k]["date"]})

\* the rows (2025-01-01, 100, 10) and (2025-01-02, 200, 0) computed for
\* metrics [revenue, sessions]
C16_Witness ==
    /\ TsInFlight /\ Computed
    /\ req.metrics = <<"revenue", "sessions">>
    /\ result.value[1] =
            <<[date |-> "2025-01-01", revenue |-> 100, sessions |-> 10],
              [date |-> "2025-01-02", revenue |-> 200, sessions |-> 0]>>

\* both calls of a pair have returned, and they were made with the same
\* parameters
PairAnswered ==
    /\ pc = "done" /\ peer.pc = "done"
    /\ req = peer.req
    /\ result.status = "ok" /\ peer.result.status = "ok"

\* C17: two calls with the same parameters that run at the same time return
\* the same result, however their steps interleave, and when both write the
\* cache they write the same value under the same key.
C17_IdenticalCallsAgree ==
    PairAnswered =>
        /\ result.value = peer.result.value
        /\ (ghost.wrote /\ peer.ghost.wrote) =>
                (loc.cacheKey = peer.loc.cacheKey /\ resp = peer.resp)

\* the TTL of the entries of an operation, in seconds
TtlOf(op) == IF op = "kpi" THEN 300 ELSE 120

\* C18: an entry written by getTimeSeries has a TTL of 120 seconds and one
\* written by getKPIs a TTL of 300 seconds; a call is served from an entry
\* only while the entry is younger than that, and a call that finds the entry
\* under its key expired is a miss: it queries the store and returns what it
\* computes, and fails only if the store fails.
C18_EntriesLiveForTheirTtl ==
    /\ \A k \in DOMAIN cache : cache[k].ttl = TtlOf(cache[k].writer.op)
    /\ pc \notin {"idle", "getCached"} =>
        /\ ghost.expired =>
                /\ ~ghost.hit
                /\ pc = "failed" => ghost.storeError
                /\ pc = "done" =>
                        /\ result.status = "ok"
                        /\ ghost.queries > 0
                        /\ result.value = Some(Uncached)
        /\ ghost.hit => now - cache[loc.cacheKey].at < TtlOf(req.op)
        /\ (pc \in {"aggregate", "fanout", "setCache"} /\ loc.cacheKey \in DOMAIN cache
                /\ cache[loc.cacheKey].payload.parses /\ ~ghost.getFault)
            => now - cache[loc.cacheKey].at >= TtlOf(req.op)

\* a KPI call made 300 seconds or more after the entry under its key was
\* written: it ran its three queries and wrote the entry anew
C18_Witness ==
    /\ KpiInFlight /\ Computed
    /\ ghost.expired
    /\ ghost.queries = 3
    /\ ghost.wrote /\ cache[loc.cacheKey].at >= 300

\* C19: the window of every aggregation query is made of whole days, from
\* the day of the start date to the day of the end date, whatever time of day
\* the two dates carry.  For revenue (values are positive): the KPI value,
\* the previous value and the trend, and the day rows of a time series, count
\* all the observations of those days and no other.
C19_WholeDayInclusive ==
    /\ (KpiInFlight /\ Computed) =>
        LET item == result.value[1].kpis[1]
            current == ObservedOn("revenue", DayOf(req.startDate), DayOf(req.endDate))
            previous == ObservedOn("revenue", DayOf(loc.prevStart), DayOf(loc.prevEnd))
        IN  /\ item.id = "revenue"
            /\ item.value = [n |-> Total(current), d |-> 1]
            /\ item.previousValue = [n |-> Total(previous), d |-> 1]
            /\ {item.trend[k].date : k \in DOMAIN item.trend}
                    = {formatDay(store[i].timestamp) : i \in current}
            /\ \A k \in DOMAIN item.trend :
                    item.trend[k].value =
                        Total({i \in current :
                                formatDay(store[i].timestamp) = item.trend[k].date})
    /\ (TsInFlight /\ Computed) =>
        LET rows == result.value[1]
            asked == ObservedOn("revenue", DayOf(req.startDate), DayOf(req.endDate))
        IN  /\ "revenue" \in Range(req.metrics) /\ req.source = None
            /\ {formatDay(store[i].timestamp) : i \in asked}
                    \subseteq {rows[k]["date"] : k \in DOMAIN rows}
            /\ \A k \in DOMAIN rows :
                    rows[k]["revenue"] =
                        Total({i \in asked : formatDay(store[i].timestamp) = rows[k]["date"]})

\* a KPI call from the last tick of 2025-01-01 to the first tick of
\* 2025-01-02 that counts the observation at the first tick of 2025-01-01 and
\* the one at the last tick of 2025-01-02
C19_Witness ==
    /\ KpiInFlight /\ Computed
    /\ TimeOfDay(req.startDate) = TicksPerDay - 1 /\ TimeOfDay(req.endDate) = 0
    /\ DayOf(req.endDate) = DayOf(req.startDate) + 1
    /\ \E i, j \in DOMAIN store :
            /\ i # j
            /\ store[i].name = "revenue" /\ store[j].name = "revenue"
            /\ store[i].timestamp = startOfDay(req.startDate)
            /\ store[j].timestamp = endOfDay(req.endDate)
            /\ result.value[1].kpis[1].value.n = store[i].value + store[j].value

\* C20: the cache key of a getKPIs call is the key of exactly the periods
\* with its start day and its end day, whatever their times of day; a hit
\* returns the cached response, written for those days, without a store query.
C20_KpiKeyIsThePeriod ==
    /\ KpiInFlight =>
            \A q \in Periods :
                kpiCacheKey(q[1], q[2]) = loc.cacheKey
                    <=> (DayOf(q[1]) = DayOf(req.startDate) /\ DayOf(q[2]) = DayOf(req.endDate))
    /\ (KpiInFlight /\ ghost.hit) =>
            /\ pc = "done"
            /\ ghost.queries = 0 /\ sub = NoSub
            /\ result.status = "ok"
            /\ result.value = Some(cache[loc.cacheKey].payload.data)
            /\ DayOf(ghost.servedFrom.startDate) = DayOf(req.startDate)
            /\ DayOf(ghost.servedFrom.endDate) = DayOf(req.endDate)

\* a KPI call served from the entry of a call for the same days at another
\* time of day
C20_Witness ==
    /\ KpiInFlight /\ ghost.hit
    /\ ghost.servedFrom.startDate # req.startDate
    /\ ghost.queries = 0

\* C21: every response computed by getKPIs holds exactly one item for each
\* entry of the metric registry, eight in all, in the registry's order, with
\* the entry's name as id and its label and format, whatever the store holds;
\* a metric without an observation in the current window has value 0 and an
\* empty trend, one without an observation in the previous window has
\* previousValue 0.
C21_OneItemPerRegistryEntry ==
    (KpiInFlight /\ Computed) =>
        LET kpis == result.value[1].kpis
        IN  /\ Len(kpis) = 8
            /\ Cardinality(DOMAIN METRIC_CONFIG) = 8
            /\ \A i \in DOMAIN kpis :
                /\ kpis[i].id = kpiMetrics[i]
                /\ kpis[i].id \in DOMAIN METRIC_CONFIG
                /\ \A j \in DOMAIN kpis : kpis[j].id = kpis[i].id => j = i
                /\ kpis[i].label = METRIC_CONFIG[kpis[i].id].label
                /\ kpis[i].format = METRIC_CONFIG[kpis[i].id].format
                /\ ObservedOn(kpis[i].id, DayOf(req.startDate), DayOf(req.endDate)) = {}
                        => kpis[i].value = Whole(0) /\ kpis[i].trend = <<>>
                /\ ObservedOn(kpis[i].id, DayOf(loc.prevStart), DayOf(loc.prevEnd)) = {}
                        => kpis[i].previousValue = Whole(0)

\* a computed response over a store that holds revenue in the window and no
\* sessions at all
C21_Witness ==
    /\ KpiInFlight /\ Computed
    /\ ObservedOn("revenue", DayOf(req.startDate), DayOf(req.endDate)) # {}
    /\ \A i \in DOMAIN store : store[i].name # "sessions"
    /\ result.value[1].kpis[1].value.n > 0
    /\ result.value[1].kpis[2] =
            [id |-> "sessions", label |-> "Sessions", value |-> Whole(0),
             previousValue |-> Whole(0), format |-> "number", trend |-> <<>>]

\* C22: getTimeSeries with an empty metric list does not fail of itself (it
\* fails only when the store query is rejected): the rows it computes, the
\* rows it caches and the rows it returns are the empty sequence.
C22_EmptyMetricListAnswersNoRows ==
    (TsInFlight /\ req.metrics = <<>>) =>
        /\ pc = "failed" => ghost.storeError
        /\ resp # None => resp = Some(<<>>)
        /\ pc = "done" => result = [status |-> "ok", value |-> Some(<<>>)]

\* an empty metric list answered from the store, which holds observations in
\* the window for the source asked for
C22_Witness ==
    /\ TsInFlight /\ Computed
    /\ req.metrics = <<>>
    /\ \E i \in DOMAIN store :
            /\ DayOf(store[i].timestamp) \in DayOf(req.startDate)..DayOf(req.endDate)
            /\ (req.source # None => store[i].source = req.source[1])
    /\ ghost.queries = 1
    /\ result.value = Some(<<>>)

\* C23: a granularity outside hour, day, week and month is not rejected: the
\* call fails only when the store query is rejected, and its rows are the rows
\* of the same request with granularity day.
C23_UnknownGranularityIsDay ==
    (TsInFlight /\ req.granularity \notin {"hour", "day", "week", "month"}) =>
        LET dayRows == normalizeRows(aggregatePipeline([req EXCEPT !.granularity = "day"]),
                                     req.metrics)
        IN  /\ pc = "failed" => ghost.storeError
            /\ resp # None => resp = Some(dayRows)
            /\ Answered => result.value = Some(dayRows)

\* granularity year over Tuesday 2024-12-31 and Wednesday 2025-01-01, two days
\* of one ISO week in two years: one row for each day
C23_Witness ==
    /\ TsInFlight /\ Computed
    /\ req.granularity = "year"
    /\ Len(result.value[1]) = 2
    /\ result.value[1][1].date = "2024-12-31"
    /\ result.value[1][2].date = "2025-01-01"

C28_DisabledCacheStaysDisabled ==
    [][/\ redis' = redis
       /\ redis = "null" =>
            /\ cache' = cache /\ cache = <<>>
            /\ ~ghost'.getFault /\ ~ghost'.setFault /\ ~ghost'.hit /\ ~ghost'.wrote
            /\ pc = "getCached" => pc' \in {"fanout", "aggregate"}
            /\ pc = "setCache" => pc' = "done" /\ result'.value = resp]_vars

\* with redis null, a second call for the same range, later on the clock,
\* answered from the store
C28_Witness ==
    /\ redis = "null"
    /\ now > 0
    /\ Computed /\ ghost.queries > 0
    /\ cache = <<>>

\* C26: no call blocks for ever: when the cache backend and the store answer
\* or fail every request sent to them, a getTimeSeries or getKPIs call that
\* has started gets to its return or to its throw.
C26_EveryCallReturns == (pc \notin {"idle", "done", "failed"}) ~> (pc \in {"done", "failed"})

\* a getKPIs call that went through the cache lookup, the three store queries
\* and the cache write, and returned
C26_Witness ==
    /\ KpiInFlight /\ pc = "done"
    /\ ghost.queries = 3
    /\ ghost.getFault /\ ghost.setFault

\* the header is the word Bearer and one more word
HasBearer(h) == h # None /\ Len(h[1]) = 2 /\ h[1][1] = "Bearer"

C25_UpdatesOnlyForVerifiedTokens ==
    \A i \in DOMAIN wss.clients :
        LET client == wss.clients[i]
            verified == client.token # None /\ jwtVerify(client.token[1]) = "decoded"
        IN  ~verified => client.readyState # "OPEN" /\ client.updates = 0

\* C29: the export route answers by the state of the report at the lookup:
\* 404 NOT_FOUND when there is no report with the id, a redirect to downloadUrl
\* when the report is completed and has a downloadUrl, 409 REPORT_NOT_READY in
\* every other state of the report; it answers once and changes no report.  A
\* lookup that is rejected goes to the error handler.
C29_ExportFollowsTheReport ==
    [][(/\ http.stage = "handler"
        /\ http.request.route = ExportRoute
        /\ http'.stage = "closed") =>
            LET id == http.request.id
                exists == id \in DOMAIN reports
                ready == /\ exists
                         /\ reports[id].status = "completed"
                         /\ reports[id].downloadUrl \notin {None, Some("")}
                answer == http'.res
            IN  /\ Len(answer) = 1
                /\ reports' = reports
                /\ IF http'.fault
                     THEN answer[1].status = 500 /\ answer[1].code = "INTERNAL_ERROR"
                   ELSE IF ~exists
                     THEN answer[1] = [status |-> 404, code |-> "NOT_FOUND",
                                       by |-> "handler", payload |-> None]
                   ELSE IF ready
                     THEN answer[1] = [status |-> 302, code |-> "", by |-> "handler",
                                       payload |-> reports[id].downloadUrl]
                   ELSE answer[1] = [status |-> 409, code |-> "REPORT_NOT_READY",
                                     by |-> "handler", payload |-> None]]_vars

\* the export of a completed report, redirected to its file
C29_Witness ==
    /\ http.stage = "closed"
    /\ http.request.route = ExportRoute
    /\ http.request.id \in DOMAIN reports
    /\ reports[http.request.id].status = "completed"
    /\ http.res[1].status = 302
    /\ http.res[1].payload = Some("https://files/report.pdf")

\* C30: a query of GET /metrics or a body of POST /reports that the schema
\* rejects is answered by validate with 400 VALIDATION_ERROR, once; validate
\* does not call next(), the handler does not run, and neither the
\* aggregation service nor the store is called for the request.
C30_ValidationFailureStopsTheRequest ==
    LET r == http.request
        invalid == \/ r.route = "GET /metrics" /\ r.query \in BadQueries
                   \/ r.route = "POST /reports" /\ r.body \in BadBodies
        rejected == \E i \in DOMAIN http.res : http.res[i].by = "validate"
        badRequest == [status |-> 400, code |-> "VALIDATION_ERROR", by |-> "validate",
                       payload |-> None]
    IN  /\ (invalid /\ "verifyToken" \in http.passed /\ http.stage # "validate") =>
              http.stage = "closed" /\ http.res = <<badRequest>>
        /\ rejected =>
              /\ invalid
              /\ http.res = <<badRequest>>
              /\ "validate" \notin http.passed
              /\ http.validated = None
              /\ http.calls = 0 /\ ~http.fault
              /\ pc = "idle" /\ ghost = NoGhost /\ result = NoResult

\* GET /metrics with granularity year, behind a valid token, answered 400
C30_Witness ==
    /\ http.stage = "closed"
    /\ http.request.route = "GET /metrics"
    /\ http.request.query.granularity = Some("year")
    /\ "verifyToken" \in http.passed
    /\ http.res[1].status = 400
    /\ http.calls = 0

====
